---- MODULE Spec2Model ----
(***************************************************************************)
(* Model of build_questions.py: the question-bank parser.  A line of the   *)
(* input file is a sequence of one-character strings, so that strip(),     *)
(* startswith(), split() and the three regular expressions are computed on *)
(* characters as the script computes them.  Cursor values (i, start, end)  *)
(* are Python's zero-based indices; At(s, k) reads s[k].                   *)
(***************************************************************************)
EXTENDS Integers, Sequences, FiniteSets, TLC

\* ------------------------------------------------------------------------
\* Characters and the str methods the script uses
\* ------------------------------------------------------------------------
UpperCase == <<"A", "B", "C", "D", "E", "F", "G", "H", "I", "J", "K", "L", "M", "N", "O", "P", "Q", "R", "S", "T", "U", "V", "W", "X", "Y", "Z">>

LowerCase == <<"a", "b", "c", "d", "e", "f", "g", "h", "i", "j", "k", "l", "m", "n", "o", "p", "q", "r", "s", "t", "u", "v", "w", "x", "y", "z">>

DigitChars == <<"0", "1", "2", "3", "4", "5", "6", "7", "8", "9">>

At(s, k) == s[k + 1]

UpperSet == {UpperCase[k] : k \in 1..Len(UpperCase)}

\* str.lower() on one character
LowerOf ==
  [c \in UpperSet |-> LowerCase[CHOOSE k \in 1..Len(UpperCase) : UpperCase[k] = c]]

\* int() on one decimal digit
DigitValue ==
  [c \in {DigitChars[k] : k \in 1..Len(DigitChars)} |->
     (CHOOSE k \in 1..Len(DigitChars) : DigitChars[k] = c) - 1]

\* ord() on one character: the letters and digits, and the other characters
\* that occur in the modelled inputs
OrdOf ==
  [c \in UpperSet |-> 64 + CHOOSE k \in 1..Len(UpperCase) : UpperCase[k] = c]
    @@ [c \in {LowerCase[k] : k \in 1..Len(LowerCase)} |->
          96 + CHOOSE k \in 1..Len(LowerCase) : LowerCase[k] = c]
    @@ [c \in DOMAIN DigitValue |-> 48 + DigitValue[c]]
    @@ ("\t" :> 9) @@ (" " :> 32) @@ ("(" :> 40) @@ (")" :> 41) @@ ("+" :> 43)
    @@ ("," :> 44) @@ ("." :> 46) @@ (":" :> 58) @@ ("?" :> 63)

IsSpace(c) == c \in {" ", "\t"}

IsDigit(c) == c \in DOMAIN DigitValue

IsUpper(c) == c \in UpperSet

IsNotColon(c) == c # ":"

IsNotComma(c) == c # ","

\* first index >= k of s that does not satisfy P, Len(s)+1 when there is none
RunEnd(s, k, P(_)) ==
  IF \E j \in k..Len(s) : ~P(s[j])
    THEN CHOOSE j \in k..Len(s) : ~P(s[j]) /\ \A m \in k..(j - 1) : P(s[m])
    ELSE Len(s) + 1

\* last index <= n of s that is not whitespace, 0 when there is none
RECURSIVE LastNonSpace(_, _)
LastNonSpace(s, n) ==
  IF n = 0 \/ ~IsSpace(s[n]) THEN n ELSE LastNonSpace(s, n - 1)

Tail_from(s, k) == SubSeq(s, k, Len(s))

strip(s) == SubSeq(s, RunEnd(s, 1, IsSpace), LastNonSpace(s, Len(s)))

lower_char(c) == IF IsUpper(c) THEN LowerOf[c] ELSE c

lower(s) == [k \in 1..Len(s) |-> lower_char(s[k])]

startswith(s, p) == Len(s) >= Len(p) /\ SubSeq(s, 1, Len(p)) = p

\* ord() of a one-character string
ord_char(c) == OrdOf[c]

\* int() of a non-empty string of decimal digits
RECURSIVE int(_)
int(d) ==
  IF Len(d) = 0 THEN 0
  ELSE 10 * int(SubSeq(d, 1, Len(d) - 1)) + DigitValue[d[Len(d)]]

\* s.split(",")
RECURSIVE split_comma(_)
split_comma(s) ==
  LET k == RunEnd(s, 1, IsNotComma)
  IN IF k > Len(s) THEN <<s>>
     ELSE <<SubSeq(s, 1, k - 1)>> \o split_comma(Tail_from(s, k + 1))

\* " ".join(parts)
RECURSIVE join_space(_)
join_space(parts) ==
  IF Len(parts) = 0 THEN <<>>
  ELSE IF Len(parts) = 1 THEN parts[1]
  ELSE parts[1] \o <<" ">> \o join_space(Tail(parts))

\* ------------------------------------------------------------------------
\* The patterns
\* ------------------------------------------------------------------------
QUESTION_WORD == <<"Q", "u", "e", "s", "t", "i", "o", "n">>

CORRECT_WORD == <<"c", "o", "r", "r", "e", "c", "t">>

ANSWER_WORD == <<"a", "n", "s", "w", "e", "r">>

OPTIONS_WORD == <<"o", "p", "t", "i", "o", "n", "s">>

CATEGORY_MARK == <<"C", "A", "T", "E", "G", "O", "R", "Y", ":">>

\* QUESTION_RE = ^Question\s+(\d+):        (match at the start of the line)
QuestionDigitsFrom(line) == RunEnd(line, Len(QUESTION_WORD) + 1, IsSpace)

QuestionDigitsTo(line) == RunEnd(line, QuestionDigitsFrom(line), IsDigit)

QUESTION_RE(line) ==
  /\ startswith(line, QUESTION_WORD)
  /\ QuestionDigitsFrom(line) > Len(QUESTION_WORD) + 1
  /\ QuestionDigitsTo(line) > QuestionDigitsFrom(line)
  /\ QuestionDigitsTo(line) <= Len(line)
  /\ line[QuestionDigitsTo(line)] = ":"

\* int(m.group(1))
QuestionNum(line) ==
  int(SubSeq(line, QuestionDigitsFrom(line), QuestionDigitsTo(line) - 1))

\* ^\s*([A-Z])\.\s*(.*)
OptionLetterAt(line) == RunEnd(line, 1, IsSpace)

OPTION_RE(line) ==
  /\ OptionLetterAt(line) + 1 <= Len(line)
  /\ IsUpper(line[OptionLetterAt(line)])
  /\ line[OptionLetterAt(line) + 1] = "."

\* m2.groups() with text.strip() applied: (letter, text)
OptionPair(line) ==
  << <<line[OptionLetterAt(line)]>>,
     strip(Tail_from(line, RunEnd(line, OptionLetterAt(line) + 2, IsSpace))) >>

\* CORRECT_RE = ^\s*Correct\s+Answer[s]?\s*\(?.*?\)?:\s*(.+)$   (IGNORECASE)
\* After "Answer" every optional piece is covered by the lazy .*?, so the match
\* takes the first colon and needs at least one character behind it.
CorrectWordAt(line) == RunEnd(line, 1, IsSpace)

AnswerWordAt(line) == RunEnd(line, CorrectWordAt(line) + Len(CORRECT_WORD), IsSpace)

CorrectColonAt(line) == RunEnd(line, AnswerWordAt(line) + Len(ANSWER_WORD), IsNotColon)

CORRECT_RE(line) ==
  /\ startswith(lower(Tail_from(line, CorrectWordAt(line))), CORRECT_WORD)
  /\ AnswerWordAt(line) > CorrectWordAt(line) + Len(CORRECT_WORD)
  /\ startswith(lower(Tail_from(line, AnswerWordAt(line))), ANSWER_WORD)
  /\ CorrectColonAt(line) < Len(line)

\* m_corr.group(1): \s* is greedy but gives back one character when nothing
\* else is left for (.+)
CorrectGroup(line) ==
  LET f == RunEnd(line, CorrectColonAt(line) + 1, IsSpace)
  IN IF f > Len(line) THEN Tail_from(line, Len(line)) ELSE Tail_from(line, f)

\* [p.strip() for p in part.split(",") if p.strip()]
RECURSIVE StripNonEmpty(_)
StripNonEmpty(parts) ==
  IF Len(parts) = 0 THEN <<>>
  ELSE (IF Len(strip(parts[1])) > 0 THEN <<strip(parts[1])>> ELSE <<>>)
         \o StripNonEmpty(Tail(parts))

CorrectLetters(line) == StripNonEmpty(split_comma(strip(CorrectGroup(line))))

IsBlankLine(line) == Len(strip(line)) = 0

IsOptionsMarker(line) == startswith(lower(strip(line)), OPTIONS_WORD)

IsCategoryHeader(line) == startswith(line, CATEGORY_MARK)

\* a name taken from the header without the strip()
CategoryName_Untrimmed(header) == Tail_from(header, RunEnd(header, 1, IsNotColon) + 1)

\* header.split(":", 1)[1].strip()
CategoryName(header) == strip(Tail_from(header, RunEnd(header, 1, IsNotColon) + 1))

\* ------------------------------------------------------------------------
\* Program constants and dict helpers
\* ------------------------------------------------------------------------
CAT_CSA == <<"C", "S", "A", " ", "E", "X", "A", "M", " ", "Q", "U", "E", "S", "T", "I", "O", "N", "S">>

CAT_SKILLCERT == <<"S", "K", "I", "L", "L", "C", "E", "R", "T", " ", "Q", "U", "E", "S", "T", "I", "O", "N", "S">>

CAT_YOUTUBE == <<"Y", "O", "U", "T", "U", "B", "E", " ", "D", "U", "M", "P", "S">>

CAT_OTHER == <<"O", "T", "H", "E", "R", " ", "S", "O", "U", "R", "C", "E", "S", " ", "1", " ", "Q", "U", "E", "S", "T", "I", "O", "N", "S">>

KEY_CSA == <<"c", "s", "a">>

KEY_SKILLCERT == <<"s", "k", "i", "l", "l", "c", "e", "r", "t">>

KEY_YOUTUBE == <<"y", "o", "u", "t", "u", "b", "e">>

KEY_OTHER == <<"o", "t", "h", "e", "r">>

\* a table that also names the MISC category
mapping_WithMisc ==
  << <<CAT_CSA, KEY_CSA>>, <<CAT_SKILLCERT, KEY_SKILLCERT>>,
     <<CAT_YOUTUBE, KEY_YOUTUBE>>, <<CAT_OTHER, KEY_OTHER>>,
     << <<"M", "I", "S", "C">>, <<"m", "i", "s", "c">> >> >>

\* the static name -> key table, in the order of the dict literal
mapping ==
  << <<CAT_CSA, KEY_CSA>>, <<CAT_SKILLCERT, KEY_SKILLCERT>>,
     <<CAT_YOUTUBE, KEY_YOUTUBE>>, <<CAT_OTHER, KEY_OTHER>> >>

\* A dict is the sequence of its <<key, value>> pairs in insertion order.
DictHas(d, k) == \E n \in 1..Len(d) : d[n][1] = k

DictGet(d, k, default) ==
  IF DictHas(d, k) THEN d[CHOOSE n \in 1..Len(d) : d[n][1] = k][2] ELSE default

\* d[k] = v: an existing key keeps its position, a new key goes last
DictSet(d, k, v) ==
  IF DictHas(d, k)
    THEN [n \in 1..Len(d) |-> IF d[n][1] = k THEN <<k, v>> ELSE d[n]]
    ELSE Append(d, <<k, v>>)

DictKeys(d) == [n \in 1..Len(d) |-> d[n][1]]

\* ------------------------------------------------------------------------
\* parse_category: the pieces of one pass of its outer loop
\* ------------------------------------------------------------------------
\* while i < len(lines) and not lines[i].strip(): i += 1
RECURSIVE SkipBlankLines(_, _)
SkipBlankLines(ls, k) ==
  IF k < Len(ls) /\ IsBlankLine(At(ls, k)) THEN SkipBlankLines(ls, k + 1) ELSE k

\* while i < len(lines) and lines[i].strip(): ... i += 1
RECURSIVE SkipTextLines(_, _)
SkipTextLines(ls, k) ==
  IF k < Len(ls) /\ ~IsBlankLine(At(ls, k)) THEN SkipTextLines(ls, k + 1) ELSE k

\* q_lines of the run ls[from .. to-1], then " ".join(q_lines).strip()
QuestionText(ls, from, to) ==
  strip(join_space([k \in 1..(to - from) |-> strip(At(ls, from + k - 1))]))

\* an option loop that ends at the first line that is no option
RECURSIVE ReadOptions_StopsAtNonOption(_, _, _)
ReadOptions_StopsAtNonOption(ls, from, to) ==
  IF from >= to \/ ~OPTION_RE(At(ls, from)) THEN <<>>
  ELSE <<OptionPair(At(ls, from))>> \o ReadOptions_StopsAtNonOption(ls, from + 1, to)

\* opts of the run ls[from .. to-1]: one (letter, text) pair per matching line
RECURSIVE ReadOptions(_, _, _)
ReadOptions(ls, from, to) ==
  IF from >= to THEN <<>>
  ELSE (IF OPTION_RE(At(ls, from)) THEN <<OptionPair(At(ls, from))>> ELSE <<>>)
         \o ReadOptions(ls, from + 1, to)

\* a scanner that takes whatever line follows the prompt for the marker
MarkerFound_AnyLine(ls, k) == k < Len(ls)

\* not (i >= len(lines) or not lines[i].strip().lower().startswith("options"))
MarkerFound(ls, k) == k < Len(ls) /\ IsOptionsMarker(At(ls, k))

\* i < len(lines) and CORRECT_RE.match(lines[i])
AnswerFound(ls, k) == k < Len(ls) /\ CORRECT_RE(At(ls, k))

\* The cursor positions of the pass that starts on the header at cursor k:
\*   promptFrom  after the header and the blank lines behind it
\*   promptTo    after the prompt run
\*   markerAt    after the blank lines behind the prompt: the line that has to
\*               be the Options marker
\*   optionsTo   after the option run that starts behind the marker
\*   answerAt    after the blank lines behind the option run: the line that
\*               has to be the answer key
BlockScan(ls, k) ==
  LET promptFrom == SkipBlankLines(ls, k + 1)
      promptTo == SkipTextLines(ls, promptFrom)
      markerAt == SkipBlankLines(ls, promptTo)
      hasMarker == MarkerFound(ls, markerAt)
      optionsTo == IF hasMarker THEN SkipTextLines(ls, markerAt + 1) ELSE markerAt
      answerAt == IF hasMarker THEN SkipBlankLines(ls, optionsTo) ELSE markerAt
      hasAnswer == hasMarker /\ AnswerFound(ls, answerAt)
  IN [promptFrom |-> promptFrom, promptTo |-> promptTo, markerAt |-> markerAt,
      hasMarker |-> hasMarker, optionsTo |-> optionsTo, answerAt |-> answerAt,
      hasAnswer |-> hasAnswer]

\* the dict appended to out for the header at cursor k, sc being its BlockScan
ParsedQuestion(ls, k, sc) ==
  [num |-> QuestionNum(At(ls, k)),
   question |-> QuestionText(ls, sc.promptFrom, sc.promptTo),
   options |-> ReadOptions(ls, sc.markerAt + 1, sc.optionsTo),
   correct_letters |-> IF sc.hasAnswer
                         THEN CorrectLetters(At(ls, sc.answerAt))
                         ELSE <<>>]

\* a discard that also steps over the line that was no marker
CursorAfterBlock_SkipsLine(sc) ==
  IF ~sc.hasMarker THEN sc.markerAt + 1
  ELSE IF sc.hasAnswer THEN sc.answerAt + 1
  ELSE sc.answerAt

\* a discard that goes back to the line before the prompt
CursorAfterBlock_Rewinds(sc) ==
  IF ~sc.hasMarker THEN sc.promptFrom - 1
  ELSE IF sc.hasAnswer THEN sc.answerAt + 1
  ELSE sc.answerAt

\* the cursor at the end of the pass: the continue leaves it on the line that
\* was no marker, a matching answer line is passed, any other line is not
CursorAfterBlock(sc) ==
  IF ~sc.hasMarker THEN sc.markerAt
  ELSE IF sc.hasAnswer THEN sc.answerAt + 1
  ELSE sc.answerAt

\* ------------------------------------------------------------------------
\* main: answer-key resolver and filter
\* ------------------------------------------------------------------------
\* ord(letter) raises TypeError unless letter is one character long
OrdRaises(letter) == Len(letter) # 1

\* a resolver that counts the letters from one
LetterIndex_OneBased(letter) == ord_char(letter[1]) - ord_char("A") + 1

\* a resolver that counts from the small letter a
LetterIndex_FromSmallA(letter) == ord_char(letter[1]) - ord_char("a")

\* ord(letter) - ord("A")
LetterIndex(letter) == ord_char(letter[1]) - ord_char("A")

\* a filter that keeps every question
IsSkipped_Never(q) == FALSE

\* if not q["correct_letters"]: ... continue
IsSkipped(q) == Len(q.correct_letters) = 0

\* a resolver that never collapses the list
Collapse_AlwaysList(indices) == [list |-> indices]

\* correct = indices[0] if len(indices) == 1 else indices
Collapse(indices) ==
  IF Len(indices) = 1 THEN [int |-> indices[1]] ELSE [list |-> indices]

JsQuestion(q) ==
  [id |-> q.num,
   question |-> q.question,
   options |-> [n \in 1..Len(q.options) |-> q.options[n][2]],
   correct |-> Collapse([n \in 1..Len(q.correct_letters) |->
                           LetterIndex(q.correct_letters[n])])]

QuestionRaises(q) ==
  ~IsSkipped(q) /\ \E n \in 1..Len(q.correct_letters) : OrdRaises(q.correct_letters[n])

\* the inner loop raises on the first question whose answer has such a token
LoopRaises(qlist) == \E n \in 1..Len(qlist) : QuestionRaises(qlist[n])

\* a loop that puts each new record in front of the list
RECURSIVE JsQuestions_Prepending(_)
JsQuestions_Prepending(qlist) ==
  IF Len(qlist) = 0 THEN <<>>
  ELSE JsQuestions_Prepending(Tail(qlist))
         \o (IF IsSkipped(qlist[1]) THEN <<>> ELSE <<JsQuestion(qlist[1])>>)

RECURSIVE JsQuestions(_)
JsQuestions(qlist) ==
  IF Len(qlist) = 0 THEN <<>>
  ELSE (IF IsSkipped(qlist[1]) THEN <<>> ELSE <<JsQuestion(qlist[1])>>)
         \o JsQuestions(Tail(qlist))

RECURSIVE MissingAnswerCount(_)
MissingAnswerCount(qlist) ==
  IF Len(qlist) = 0 THEN 0
  ELSE (IF IsSkipped(qlist[1]) THEN 1 ELSE 0) + MissingAnswerCount(Tail(qlist))

\* ------------------------------------------------------------------------
\* Input files: lines, blocks of lines, and files built from them
\* ------------------------------------------------------------------------
HdrCsa == <<"C", "A", "T", "E", "G", "O", "R", "Y", ":", " ", "C", "S", "A", " ", "E", "X", "A", "M", " ", "Q", "U", "E", "S", "T", "I", "O", "N", "S">>

HdrYoutube == <<"C", "A", "T", "E", "G", "O", "R", "Y", ":", "Y", "O", "U", "T", "U", "B", "E", " ", "D", "U", "M", "P", "S", " ">>

HdrMisc == <<"C", "A", "T", "E", "G", "O", "R", "Y", ":", " ", "M", "I", "S", "C">>

CAT_MISC == <<"M", "I", "S", "C">>

Q1 == <<"Q", "u", "e", "s", "t", "i", "o", "n", " ", "1", ":">>

Q2 == <<"Q", "u", "e", "s", "t", "i", "o", "n", " ", " ", "2", ":", " ", "(", "m", "u", "l", "t", "i", ")">>

Prompt == <<"W", "h", "a", "t", " ", "i", "s", " ", "2", "+", "2", "?">>

PromptA == <<" ", "W", "h", "i", "c", "h", " ", "a", "r", "e">>

PromptB == <<"e", "v", "e", "n", "?", " ">>

PromptAB == <<"W", "h", "i", "c", "h", " ", "a", "r", "e", " ", "e", "v", "e", "n", "?">>

Blank == <<>>

BlankWs == <<" ", "\t">>

OptMark == <<"O", "p", "t", "i", "o", "n", "s", ":">>

OptMarkAlt == <<" ", " ", "O", "P", "T", "I", "O", "N", "S">>

OptA == <<"A", ".", " ", "3">>

OptB == <<"B", ".", " ", "4">>

OptC == <<"C", ".", " ", "5">>

OptA2 == <<" ", "A", ".", "2", " ">>

OptC2 == <<"C", ".", " ", " ", "6">>

AnsA == <<"C", "o", "r", "r", "e", "c", "t", " ", "A", "n", "s", "w", "e", "r", ":", " ", "A">>

AnsB == <<"C", "o", "r", "r", "e", "c", "t", " ", "A", "n", "s", "w", "e", "r", ":", " ", "B">>

AnsAC == <<"C", "o", "r", "r", "e", "c", "t", " ", "A", "n", "s", "w", "e", "r", "s", ":", " ", "A", ",", " ", "C">>

AnsParen == <<"c", "o", "r", "r", "e", "c", "t", " ", "a", "n", "s", "w", "e", "r", "(", "s", ")", ":", " ", "C", ",", "A">>

AnsText == <<"C", "o", "r", "r", "e", "c", "t", " ", "A", "n", "s", "w", "e", "r", ":", " ", "B", " ", "(", "s", "e", "e", " ", "n", "o", "t", "e", "s", ")">>

AnsEmpty == <<"C", "o", "r", "r", "e", "c", "t", " ", "A", "n", "s", "w", "e", "r", ":", " ", ",">>

\* the block of the round-trip scenario
BlockValid == <<Q1, Prompt, Blank, OptMark, OptA, OptB, OptC, Blank, AnsB>>

\* two prompt lines, indented marker and option, two answer letters
BlockMulti == <<Q2, PromptA, PromptB, BlankWs, OptMarkAlt, OptA2, OptB, OptC2, Blank, AnsAC>>

\* no Options marker
BlockNoOptions == <<Q2, Prompt, Blank>>

\* a header with nothing behind it
BlockHeaderOnly == <<Q2>>

\* Options marker and options, no answer line
BlockNoAnswer == <<Q2, Prompt, Blank, OptMark, OptA, OptB, Blank>>

\* trailing text behind the answer letter, and a line that belongs to no block
BlockTextAnswer == <<Q1, Prompt, Blank, OptMark, OptA, OptB, Blank, AnsText, Prompt>>

\* the answer line matches but holds no letter
BlockEmptyAnswer == <<Q2, Prompt, Blank, OptMark, OptA, Blank, AnsEmpty>>

\* Options marker with no option line
BlockZeroOptions == <<Q1, Prompt, Blank, OptMark, Blank, AnsA>>

\* option labels out of alphabetical order, answer-key and header lines inside
\* the option run, answer letters in reverse
BlockSwapped == <<Q1, Prompt, Blank, OptMark, OptB, AnsB, Q2, OptA, OptC, Blank, AnsParen>>

\* the blocks and the category headers, by name
BlockLines ==
  [valid |-> BlockValid, multi |-> BlockMulti, nooptions |-> BlockNoOptions,
   headeronly |-> BlockHeaderOnly, noanswer |-> BlockNoAnswer,
   textanswer |-> BlockTextAnswer, emptyanswer |-> BlockEmptyAnswer,
   zerooptions |-> BlockZeroOptions, swapped |-> BlockSwapped]

HeaderLines ==
  [none |-> <<>>, csa |-> <<HdrCsa>>, youtube |-> <<HdrYoutube>>, misc |-> <<HdrMisc>>]

\* a unit is a block, or a category header followed by a block
Units == [hdr : DOMAIN HeaderLines, block : DOMAIN BlockLines]

UnitLines(u) == HeaderLines[u.hdr] \o BlockLines[u.block]

MaxUnits == 2

\* the files of at most n units, each file the sequence of its units
RECURSIVE Files(_)
Files(n) ==
  IF n = 0 THEN {<<>>}
  ELSE Files(n - 1) \cup {Append(f, u) : f \in Files(n - 1), u \in Units}

\* the lines of a file
RECURSIVE FileLines(_)
FileLines(f) ==
  IF Len(f) = 0 THEN <<>> ELSE UnitLines(f[1]) \o FileLines(Tail(f))

\* the input file: unreadable, or any file of at most MaxUnits units
InputFiles ==
  {[readable |-> FALSE, units |-> <<>>]}
    \cup {[readable |-> TRUE, units |-> f] : f \in Files(MaxUnits)}

\* ------------------------------------------------------------------------
\* State
\* ------------------------------------------------------------------------
VARIABLES
  input_file,              \* ALL_QUESTIONS_AND_ANSWERS.txt: readable or not, and its units
  output_file,             \* questions.js: whether it exists, and the structure dumped
  stdout,                  \* what print() has written, in order
  pc,                      \* position in main
  cat_indices,             \* main: header positions, then len(raw_lines)
  seg,                     \* main: number of (start, end) pairs already handled
  categories,              \* main: dict name -> parsed questions
  skipped_by_cat,          \* main: dict name -> ordinals without answer line
  name,                    \* main / parse_category: the segment's category name
  i,                       \* parse_category: the cursor
  out,                     \* parse_category: questions parsed so far
  skipped_missing_answer,  \* parse_category: ordinals without answer line
  mk,                      \* main: number of mapping items already handled
  js_obj                   \* main: dict key -> records

vars ==
  <<input_file, output_file, stdout, pc, cat_indices, seg, categories,
    skipped_by_cat, name, i, out, skipped_missing_answer, mk, js_obj>>

\* raw_lines = read_text().splitlines(): the file is not touched during the
\* run, so from the read on raw_lines is the file's lines
raw_lines == FileLines(input_file.units)

\* body = raw_lines[start + 1:end], the lines parameter of parse_category
lines ==
  IF pc = "parse"
    THEN SubSeq(raw_lines, cat_indices[seg + 1] + 2, cat_indices[seg + 2])
    ELSE <<>>

mainVars == <<cat_indices, seg, categories, skipped_by_cat>>

parseVars == <<name, i, out, skipped_missing_answer>>

Init ==
  /\ input_file \in InputFiles
  /\ output_file = [exists |-> FALSE, content |-> <<>>]
  /\ stdout = <<>>
  /\ pc = "read"
  /\ cat_indices = <<>>
  /\ seg = 0
  /\ categories = <<>>
  /\ skipped_by_cat = <<>>
  /\ name = <<>>
  /\ i = 0
  /\ out = <<>>
  /\ skipped_missing_answer = <<>>
  /\ mk = 0
  /\ js_obj = <<>>

\* [i for i, line in enumerate(raw_lines) if line.startswith("CATEGORY:")]
RECURSIVE HeaderIndices(_, _)
HeaderIndices(ls, k) ==
  IF k >= Len(ls) THEN <<>>
  ELSE (IF IsCategoryHeader(At(ls, k)) THEN <<k>> ELSE <<>>) \o HeaderIndices(ls, k + 1)

\* a read that takes an unreadable file for an empty one
ReadInput_SwallowsError ==
  /\ pc = "read"
  /\ cat_indices' = LET rl == raw_lines
                    IN Append(HeaderIndices(rl, 0), Len(rl))
  /\ pc' = "segments"
  /\ UNCHANGED <<input_file, output_file, stdout, seg, categories, skipped_by_cat,
                 parseVars, mk, js_obj>>

\* read_text().splitlines(); an unreadable file raises and ends the run
ReadInput ==
  /\ pc = "read"
  /\ IF input_file.readable
       THEN /\ cat_indices' = LET rl == raw_lines
                               IN Append(HeaderIndices(rl, 0), Len(rl))
            /\ pc' = "segments"
       ELSE /\ pc' = "raised"
            /\ UNCHANGED cat_indices
  /\ UNCHANGED <<input_file, output_file, stdout, seg, categories, skipped_by_cat,
                 parseVars, mk, js_obj>>

\* one (start, end) pair of the zip: the call of parse_category, up to its loop
BeginSegment ==
  /\ pc = "segments"
  /\ seg < Len(cat_indices) - 1
  /\ name' = CategoryName(At(raw_lines, cat_indices[seg + 1]))
  /\ i' = 0
  /\ out' = <<>>
  /\ skipped_missing_answer' = <<>>
  /\ pc' = "parse"
  /\ UNCHANGED <<input_file, output_file, stdout, mainVars, mk, js_obj>>

\* a pass of the outer loop on a line that is no question header
ScanLine ==
  /\ pc = "parse"
  /\ LET ls == lines
     IN /\ i < Len(ls)
        /\ ~QUESTION_RE(At(ls, i))
  /\ i' = i + 1
  /\ UNCHANGED <<input_file, output_file, stdout, pc, mainVars, name, out,
                 skipped_missing_answer, mk, js_obj>>

\* a pass of the outer loop on a question header
ParseBlock ==
  /\ pc = "parse"
  /\ LET ls == lines
     IN /\ i < Len(ls)
        /\ QUESTION_RE(At(ls, i))
        /\ LET sc == BlockScan(ls, i)
               num == QuestionNum(At(ls, i))
           IN /\ i' = CursorAfterBlock(sc)
              /\ IF ~sc.hasMarker
                   THEN /\ stdout' = Append(stdout, [kind |-> "warn", cat |-> name,
                                                     num |-> num])
                        /\ UNCHANGED <<out, skipped_missing_answer>>
                   ELSE /\ out' = Append(out, ParsedQuestion(ls, i, sc))
                        /\ skipped_missing_answer' =
                             IF sc.hasAnswer THEN skipped_missing_answer
                             ELSE Append(skipped_missing_answer, num)
                        /\ UNCHANGED stdout
  /\ UNCHANGED <<input_file, output_file, pc, mainVars, name, mk, js_obj>>

\* parse_category returns; main stores the two results under the name
ReturnCategory ==
  /\ pc = "parse"
  /\ i >= cat_indices[seg + 2] - cat_indices[seg + 1] - 1
  /\ categories' = DictSet(categories, name, out)
  /\ skipped_by_cat' = DictSet(skipped_by_cat, name, skipped_missing_answer)
  /\ seg' = seg + 1
  /\ pc' = "segments"
  /\ i' = 0
  /\ out' = <<>>
  /\ skipped_missing_answer' = <<>>
  /\ UNCHANGED <<input_file, output_file, stdout, cat_indices, name, mk, js_obj>>

\* the zip is exhausted: main goes on to the mapping loop
BeginMapping ==
  /\ pc = "segments"
  /\ seg >= Len(cat_indices) - 1
  /\ pc' = "map"
  /\ UNCHANGED <<input_file, output_file, stdout, mainVars, parseVars, mk, js_obj>>

\* the lines one item of the mapping prints
Report(cat_name, key, qlist) ==
  << [kind |-> "report", cat |-> cat_name, key |-> key,
      included |-> Len(JsQuestions(qlist)),
      skipped |-> MissingAnswerCount(qlist)] >>
    \o (IF Len(DictGet(skipped_by_cat, cat_name, <<>>)) > 0
          THEN << [kind |-> "listing", cat |-> cat_name,
                   nums |-> DictGet(skipped_by_cat, cat_name, <<>>)] >>
          ELSE <<>>)

\* one item of mapping.items(): resolve, filter, store and report
MapCategory ==
  /\ pc = "map"
  /\ mk < Len(mapping)
  /\ LET cat_name == mapping[mk + 1][1]
         key == mapping[mk + 1][2]
         qlist == DictGet(categories, cat_name, <<>>)
     IN IF LoopRaises(qlist)
          THEN /\ pc' = "raised"
               /\ UNCHANGED <<js_obj, mk, stdout>>
          ELSE /\ js_obj' = DictSet(js_obj, key, JsQuestions(qlist))
               /\ stdout' = stdout \o Report(cat_name, key, qlist)
               /\ mk' = mk + 1
               /\ pc' = pc
  /\ UNCHANGED <<input_file, output_file, mainVars, parseVars>>

\* open questions.js for writing, dump js_obj, print the totals
WriteOutput ==
  /\ pc = "map"
  /\ mk >= Len(mapping)
  /\ output_file' = [exists |-> TRUE, content |-> js_obj]
  /\ stdout' = Append(stdout,
                 [kind |-> "wrote",
                  totals |-> [n \in 1..Len(mapping) |->
                                <<mapping[n][2],
                                  Len(DictGet(js_obj, mapping[n][2], <<>>))>>]])
  /\ pc' = "done"
  /\ UNCHANGED <<input_file, mainVars, parseVars, mk, js_obj>>

Next ==
  \/ ReadInput
  \/ BeginSegment
  \/ ScanLine
  \/ ParseBlock
  \/ ReturnCategory
  \/ BeginMapping
  \/ MapCategory
  \/ WriteOutput

Spec == Init /\ [][Next]_vars

\* ------------------------------------------------------------------------
\* Properties
\* ------------------------------------------------------------------------
MappedNames == {mapping[n][1] : n \in 1..Len(mapping)}

Range(q) == {q[n] : n \in 1..Len(q)}

\* the records of the structure written to questions.js
OutputRecords == UNION {Range(output_file.content[n][2]) : n \in 1..Len(output_file.content)}

\* the correct indices of a record: the bare integer, or the elements of the sequence
IsBareInteger(r) == "int" \in DOMAIN r.correct

CorrectIndices(r) == IF IsBareInteger(r) THEN {r.correct.int} ELSE Range(r.correct.list)

\* C1: every correct index of every record written to the output is >= 0 and
\* less than the length of that record's options list.
C1_IndicesInRange ==
  output_file.exists =>
    \A r \in OutputRecords : \A x \in CorrectIndices(r) : 0 <= x /\ x < Len(r.options)

\* C3: an answer key whose tokens are not single letters is never fatal: a run
\* that could read its input does not abort.
C3_NeverAborts == input_file.readable => pc # "raised"

\* first cursor position >= k whose line satisfies P, len(ls) when there is none
FirstAt(ls, k, P(_)) ==
  IF \E m \in k..(Len(ls) - 1) : P(At(ls, m))
    THEN CHOOSE m \in k..(Len(ls) - 1) :
           P(At(ls, m)) /\ \A x \in k..(m - 1) : ~P(At(ls, x))
    ELSE Len(ls)

IsTextLine(line) == ~IsBlankLine(line)

\* no Options-marker line at the cursor positions a .. b-1
NoMarkerBetween(ls, a, b) == \A m \in a..(b - 1) : ~IsOptionsMarker(At(ls, m))

\* the cursor stands on a question header at the start of a pass
AtHeader == pc = "parse" /\ i < Len(lines) /\ QUESTION_RE(At(lines, i))

\* the pass leaves no record and no missing-answer entry behind
YieldsNothing == out' = out /\ skipped_missing_answer' = skipped_missing_answer

\* the end of the prompt run of the header at cursor k: behind the first run of
\* non-blank lines that follows the header
PromptRunEnd(ls, k) == FirstAt(ls, FirstAt(ls, k + 1, IsTextLine), IsBlankLine)

\* C2 as stated: a block with no Options-marker line between its header and the
\* next question-header line (or the segment end) yields no record and no
\* missing-answer entry.
C2_NoMarkerYieldsNothing ==
  [][(AtHeader /\ NoMarkerBetween(lines, i + 1, FirstAt(lines, i + 1, QUESTION_RE)))
       => YieldsNothing]_vars

\* C2 amended: a block with no Options-marker line between its header and the
\* next question-header line behind its prompt run (or the segment end) yields
\* no record and no missing-answer entry.
C2_NoMarkerBehindPromptYieldsNothing ==
  [][(AtHeader
        /\ NoMarkerBetween(lines, i + 1,
                           FirstAt(lines, PromptRunEnd(lines, i), QUESTION_RE)))
       => YieldsNothing]_vars

\* a block was just discarded: its warning is the last thing printed, and the
\* segment has no record and no missing-answer entry
C2_Witness ==
  /\ pc = "parse"
  /\ i > 0
  /\ Len(stdout) > 0
  /\ stdout[Len(stdout)].kind = "warn"
  /\ out = <<>>
  /\ skipped_missing_answer = <<>>

\* the round-trip scenario: one category CSA EXAM QUESTIONS holding Question 1
RoundTripFile == <<[hdr |-> "csa", block |-> "valid"]>>

RoundTripRecord ==
  [id |-> 1, question |-> Prompt, options |-> << <<"3">>, <<"4">>, <<"5">> >>,
   correct |-> [int |-> 1]]

RoundTripDone == pc = "done" /\ input_file.readable /\ input_file.units = RoundTripFile

\* C4 as stated: for the round-trip input the exported structure is the mapping
\* with the single key csa and the one record, with no other keys.
C4_OnlyCsaKey ==
  RoundTripDone => output_file.content = << <<KEY_CSA, <<RoundTripRecord>> >> >>

\* C4 amended: for the round-trip input the exported structure has the four
\* keys of the table in table order; csa holds the one record, the other three
\* hold empty lists.
C4_CsaAndEmptyOthers ==
  RoundTripDone =>
    output_file.content =
      << <<KEY_CSA, <<RoundTripRecord>> >>, <<KEY_SKILLCERT, <<>> >>,
         <<KEY_YOUTUBE, <<>> >>, <<KEY_OTHER, <<>> >> >>

C4_Witness == RoundTripDone /\ output_file.exists

\* the category name of a key of the table
NameOfKey(key) == mapping[CHOOSE n \in 1..Len(mapping) : mapping[n][2] = key][1]

HasLetters(q) == Len(q.correct_letters) > 0

LettersCount(qlist) == Cardinality({n \in 1..Len(qlist) : HasLetters(qlist[n])})

\* C5: every record of the final output has a non-empty correct answer, and a
\* question whose answer-letter list is empty has no record: each key holds as
\* many records as its category has questions with a letter.
C5_NoEmptyCorrect ==
  /\ \A n \in 1..Len(js_obj) :
       /\ \A r \in Range(js_obj[n][2]) : CorrectIndices(r) # {}
       /\ Len(js_obj[n][2]) = LettersCount(DictGet(categories, NameOfKey(js_obj[n][1]), <<>>))
  /\ output_file.exists =>
       /\ output_file.content = js_obj
       /\ \A r \in OutputRecords : CorrectIndices(r) # {}

\* the output is written, and a mapped category holds a question without
\* letters next to one with letters
C5_Witness ==
  /\ pc = "done"
  /\ output_file.exists
  /\ \E n \in 1..Len(categories) :
       /\ categories[n][1] \in MappedNames
       /\ \E a, b \in Range(categories[n][2]) : HasLetters(a) /\ ~HasLetters(b)

\* the run has ended: the output is written, or an exception ended it
Terminated == pc \in {"done", "raised"}

\* the positions of the block of the header at cursor k, read off the lines:
\* the marker line behind the prompt run, the end of the option run behind the
\* marker, and the first non-blank line behind the option run
MarkerLine(ls, k) == FirstAt(ls, PromptRunEnd(ls, k), IsTextLine)

OptionRunEnd(ls, k) == FirstAt(ls, MarkerLine(ls, k) + 1, IsBlankLine)

AnswerLine(ls, k) == FirstAt(ls, OptionRunEnd(ls, k), IsTextLine)

HasMarkerLine(ls, k) ==
  MarkerLine(ls, k) < Len(ls) /\ IsOptionsMarker(At(ls, MarkerLine(ls, k)))

\* an Options marker, and behind the option run no line that matches the
\* answer-key pattern
MarkerButNoAnswer(ls, k) ==
  /\ HasMarkerLine(ls, k)
  /\ AnswerLine(ls, k) < Len(ls) => ~CORRECT_RE(At(ls, AnswerLine(ls, k)))

\* every ordinal that parse_category listed for a mapped category is in a
\* listing printed for that category
MissingAnswersListed ==
  \A n \in 1..Len(skipped_by_cat) :
    skipped_by_cat[n][1] \in MappedNames =>
      \A x \in Range(skipped_by_cat[n][2]) :
        \E e \in Range(stdout) :
          e.kind = "listing" /\ e.cat = skipped_by_cat[n][1] /\ x \in Range(e.nums)

\* C6: a question with an Options marker but no answer-key line behind its
\* option run is retained with an empty answer set, the cursor staying on the
\* line that did not match; it is excluded from the final output, and its
\* ordinal is in the missing-answer listing printed for its category.
C6_NoAnswerRetainedAndListed ==
  /\ [][(AtHeader /\ MarkerButNoAnswer(lines, i)) =>
          /\ Len(out') = Len(out) + 1
          /\ out'[Len(out')].num = QuestionNum(At(lines, i))
          /\ out'[Len(out')].correct_letters = <<>>
          /\ i' = AnswerLine(lines, i)
          /\ skipped_missing_answer' =
               Append(skipped_missing_answer, QuestionNum(At(lines, i)))]_vars
  /\ []((Terminated /\ input_file.readable) =>
          /\ MissingAnswersListed
          /\ \A r \in OutputRecords : CorrectIndices(r) # {})

\* the lines of the n-th category segment of the input, and its category name
SegmentLines(n) == SubSeq(raw_lines, cat_indices[n] + 2, cat_indices[n + 1])

SegmentName(n) == CategoryName(At(raw_lines, cat_indices[n]))

Segments == 1..(Len(cat_indices) - 1)

\* a line that is prompt text: neither blank nor a question header
IsPromptLine(line) == IsTextLine(line) /\ ~QUESTION_RE(line)

\* an answer key of one or more single capital letters
IsLetterKey(line) ==
  /\ CORRECT_RE(line)
  /\ Len(CorrectLetters(line)) > 0
  /\ \A n \in 1..Len(CorrectLetters(line)) :
       Len(CorrectLetters(line)[n]) = 1 /\ IsUpper(CorrectLetters(line)[n][1])

\* the block layout behind the header at p: the prompt run p+1 .. b-1, the
\* marker m behind the blank lines, the option run m+1 .. e-1, the answer key k
BlockLayout(ls, p) ==
  LET b == FirstAt(ls, p + 1, IsBlankLine)
      m == FirstAt(ls, b, IsTextLine)
      e == FirstAt(ls, m + 1, IsBlankLine)
      k == FirstAt(ls, e, IsTextLine)
  IN [promptEnd |-> b, marker |-> m, optionsEnd |-> e, answer |-> k]

\* header, prompt lines, blank line, Options marker, at least one option line
\* and only option lines, blank line, answer key
WellFormedAt(ls, p) ==
  LET lay == BlockLayout(ls, p)
  IN /\ QUESTION_RE(At(ls, p))
     /\ lay.promptEnd > p + 1
     /\ \A x \in (p + 1)..(lay.promptEnd - 1) : IsPromptLine(At(ls, x))
     /\ lay.marker < Len(ls)
     /\ IsOptionsMarker(At(ls, lay.marker))
     /\ lay.optionsEnd > lay.marker + 1
     /\ \A x \in (lay.marker + 1)..(lay.optionsEnd - 1) : OPTION_RE(At(ls, x))
     /\ lay.answer < Len(ls)
     /\ IsLetterKey(At(ls, lay.answer))

\* what the claim says of the record of the block at p: the ordinal, the prompt
\* lines joined by single spaces, the option texts in encounter order
ExpectedFields(ls, p) ==
  LET lay == BlockLayout(ls, p)
  IN [id |-> QuestionNum(At(ls, p)),
      question |-> join_space([n \in 1..(lay.promptEnd - p - 1) |->
                                 strip(At(ls, p + n))]),
      options |-> [n \in 1..(lay.optionsEnd - lay.marker - 1) |->
                     OptionPair(At(ls, lay.marker + n))[2]]]

RecordFields(r) == [id |-> r.id, question |-> r.question, options |-> r.options]

\* the well-formed blocks of the category cat whose record is to be f, and the
\* records of the output under the key of cat that are f
BlocksWith(cat, f) ==
  {sp \in Segments \X (0..Len(raw_lines)) :
     /\ SegmentName(sp[1]) = cat
     /\ sp[2] < Len(SegmentLines(sp[1]))
     /\ WellFormedAt(SegmentLines(sp[1]), sp[2])
     /\ ExpectedFields(SegmentLines(sp[1]), sp[2]) = f}

RecordsWith(key, f) ==
  LET recs == DictGet(output_file.content, key, <<>>)
  IN {n \in 1..Len(recs) : RecordFields(recs[n]) = f}

\* C7: for every well-formed question block in a mapped category the output
\* holds exactly one record for it, with the header ordinal as id, the prompt
\* lines joined by single spaces as question and one option text per option
\* line, in encounter order with the letter label stripped.
C7_WellFormedBlockHasOneRecord ==
  (Terminated /\ input_file.readable) =>
    \A n \in 1..Len(mapping) :
      \A sp \in Segments \X (0..Len(raw_lines)) :
        (/\ SegmentName(sp[1]) = mapping[n][1]
         /\ sp[2] < Len(SegmentLines(sp[1]))
         /\ WellFormedAt(SegmentLines(sp[1]), sp[2])) =>
          LET f == ExpectedFields(SegmentLines(sp[1]), sp[2])
          IN /\ output_file.exists
             /\ Cardinality(RecordsWith(mapping[n][2], f)) =
                  Cardinality(BlocksWith(mapping[n][1], f))

\* the scenario: one segment, of a mapped category, that holds a block without
\* Options marker and behind it a well-formed block that ends the segment
DroppedThenValid ==
  /\ input_file.readable
  /\ Len(cat_indices) = 2
  /\ cat_indices[1] = 0
  /\ SegmentName(1) \in MappedNames
  /\ LET ls == SegmentLines(1)
     IN /\ Len(ls) > 0
        /\ QUESTION_RE(At(ls, 0))
        /\ ~HasMarkerLine(ls, 0)
        /\ MarkerLine(ls, 0) < Len(ls)
        /\ WellFormedAt(ls, MarkerLine(ls, 0))
        /\ BlockLayout(ls, MarkerLine(ls, 0)).answer = Len(ls) - 1

DroppedKey == mapping[CHOOSE n \in 1..Len(mapping) : mapping[n][1] = SegmentName(1)][2]

\* C8: a block without Options marker is discarded with a warning that names
\* its ordinal, and the scan resumes on the line that was no marker, behind
\* every consumed line; a well-formed block under the cursor is parsed into a
\* record; and when a well-formed block follows a discarded one in the segment
\* of a mapped category, the output of that category holds the record of the
\* valid block and nothing else.
C8_DroppedThenValid ==
  /\ [][(AtHeader /\ ~HasMarkerLine(lines, i)) =>
          /\ YieldsNothing
          /\ i' = MarkerLine(lines, i)
          /\ i' > i
          /\ stdout' = Append(stdout, [kind |-> "warn", cat |-> name,
                                       num |-> QuestionNum(At(lines, i))])]_vars
  /\ [][(AtHeader /\ WellFormedAt(lines, i)) =>
          /\ Len(out') = Len(out) + 1
          /\ [id |-> out'[Len(out')].num,
              question |-> out'[Len(out')].question,
              options |-> [n \in 1..Len(out'[Len(out')].options) |->
                             out'[Len(out')].options[n][2]]]
               = ExpectedFields(lines, i)
          /\ i' = BlockLayout(lines, i).answer + 1]_vars
  /\ []((pc = "done" /\ DroppedThenValid) =>
          LET ls == SegmentLines(1)
              recs == DictGet(output_file.content, DroppedKey, <<>>)
          IN /\ output_file.exists
             /\ Len(recs) = 1
             /\ RecordFields(recs[1]) = ExpectedFields(ls, MarkerLine(ls, 0))
             /\ Cardinality({n \in 1..Len(stdout) : stdout[n].kind = "warn"}) = 1
             /\ \E e \in Range(stdout) :
                  /\ e.kind = "warn"
                  /\ e.cat = SegmentName(1)
                  /\ e.num = QuestionNum(At(ls, 0)))

\* the scenario has run to its end: a warning, and the written output
C8_Witness ==
  /\ pc = "done"
  /\ DroppedThenValid
  /\ output_file.exists
  /\ Len(DictGet(output_file.content, DroppedKey, <<>>)) = 1
  /\ \E e \in Range(stdout) : e.kind = "warn"

\* the position of a capital letter in the alphabet, A at 0
AlphabetIndex(c) == CHOOSE p \in 0..25 : UpperCase[p + 1] = c

\* the questions of a list that have answer letters, in their order
Kept(qlist) == SelectSeq(qlist, HasLetters)

\* what the claim says of the correct field for the recorded letters
CorrectAsClaimed(r, letters) ==
  /\ IsBareInteger(r) <=> Len(letters) = 1
  /\ Len(letters) = 1 => r.correct.int = AlphabetIndex(letters[1][1])
  /\ Len(letters) >= 2 =>
       /\ Len(r.correct.list) = Len(letters)
       /\ \A n \in 1..Len(letters) :
            r.correct.list[n] = AlphabetIndex(letters[n][1])

\* C9: the correct field of a record is a bare integer if and only if exactly
\* one answer letter was recorded for its question; with two or more letters
\* it is the sequence of their alphabet positions (A at 0), in the order of the
\* letters on the answer-key line.
C9_CorrectShape ==
  /\ \A n \in 1..Len(js_obj) :
       LET kept == Kept(DictGet(categories, NameOfKey(js_obj[n][1]), <<>>))
       IN /\ Len(js_obj[n][2]) = Len(kept)
          /\ \A j \in 1..Len(kept) :
               CorrectAsClaimed(js_obj[n][2][j], kept[j].correct_letters)
  /\ output_file.exists => output_file.content = js_obj

\* the output holds the record of a single letter and the record of 'A, C'
C9_Witness ==
  /\ pc = "done"
  /\ \E r \in OutputRecords : IsBareInteger(r) /\ r.correct.int = 1
  /\ \E r \in OutputRecords : ~IsBareInteger(r) /\ r.correct.list = <<0, 2>>

\* the category a line of the input belongs to: the name on the last category
\* header at or before it (the empty name before the first header)
CategoryAt(x) ==
  LET before == {n \in Segments : cat_indices[n] <= x}
  IN IF before = {} THEN <<>>
     ELSE SegmentName(CHOOSE n \in before : \A m \in before : m <= n)

\* the ordinals of the question-header lines of a category, in input order
RECURSIVE HeaderNums(_, _)
HeaderNums(cat, x) ==
  IF x >= Len(raw_lines) THEN <<>>
  ELSE (IF QUESTION_RE(At(raw_lines, x)) /\ CategoryAt(x) = cat
          THEN <<QuestionNum(At(raw_lines, x))>> ELSE <<>>)
         \o HeaderNums(cat, x + 1)

\* a is b with some elements left out
RECURSIVE IsSubsequence(_, _)
IsSubsequence(a, b) ==
  IF Len(a) = 0 THEN TRUE
  ELSE IF Len(b) = 0 THEN FALSE
  ELSE IF a[1] = b[1] THEN IsSubsequence(Tail(a), Tail(b))
  ELSE IsSubsequence(a, Tail(b))

\* the records of every key follow the question headers of its category
RecordsInHeaderOrder ==
  \A n \in 1..Len(output_file.content) :
    LET recs == output_file.content[n][2]
    IN IsSubsequence([j \in 1..Len(recs) |-> recs[j].id],
                     HeaderNums(NameOfKey(output_file.content[n][1]), 0))

\* the line of the first header of a category that the input has
HasHeader(cat) == \E n \in Segments : SegmentName(n) = cat

FirstHeader(cat) ==
  cat_indices[CHOOSE n \in Segments :
                /\ SegmentName(n) = cat
                /\ \A m \in Segments : SegmentName(m) = cat => n <= m]

\* C10: the records of each category are in the order of their question
\* headers in the input, and the categories of the output are in the order of
\* their headers in the input.
C10_InputOrder ==
  output_file.exists =>
    /\ RecordsInHeaderOrder
    /\ \A a, b \in 1..Len(output_file.content) :
         LET ca == NameOfKey(output_file.content[a][1])
             cb == NameOfKey(output_file.content[b][1])
         IN (a < b /\ HasHeader(ca) /\ HasHeader(cb)) =>
              FirstHeader(ca) < FirstHeader(cb)

\* C10, amended: the records of each category are in the order of their
\* question headers in the input, and the keys of the output are in the order
\* of the static table, csa, skillcert, youtube, other, whatever the order of
\* the category headers in the input.
C10_TableOrder ==
  output_file.exists =>
    /\ RecordsInHeaderOrder
    /\ [n \in 1..Len(output_file.content) |-> output_file.content[n][1]]
         = <<KEY_CSA, KEY_SKILLCERT, KEY_YOUTUBE, KEY_OTHER>>

\* an input with the YouTube category before the CSA category, both with a
\* record in the written output
C10_Witness ==
  /\ pc = "done"
  /\ output_file.exists
  /\ HasHeader(CAT_CSA) /\ HasHeader(CAT_YOUTUBE)
  /\ FirstHeader(CAT_YOUTUBE) < FirstHeader(CAT_CSA)
  /\ Len(DictGet(output_file.content, KEY_CSA, <<>>)) > 0
  /\ Len(DictGet(output_file.content, KEY_YOUTUBE, <<>>)) > 0

\* the names and the keys of the static table, as the source writes them
TableNames == {CAT_CSA, CAT_SKILLCERT, CAT_YOUTUBE, CAT_OTHER}

TableKeys == {KEY_CSA, KEY_SKILLCERT, KEY_YOUTUBE, KEY_OTHER}

\* the record r is the record of the parsed question q
IsRecordOf(r, q) ==
  /\ r.id = q.num
  /\ r.question = q.question
  /\ r.options = [n \in 1..Len(q.options) |-> q.options[n][2]]

\* the places of the output's records, and the places of the parsed questions
\* with answer letters in the categories the table names
RecordPlaces ==
  {p \in (1..Len(output_file.content)) \X (1..Len(raw_lines)) :
     p[2] <= Len(output_file.content[p[1]][2])}

TableQuestionPlaces ==
  {p \in (1..Len(categories)) \X (1..Len(raw_lines)) :
     /\ categories[p[1]][1] \in TableNames
     /\ p[2] <= Len(categories[p[1]][2])
     /\ HasLetters(categories[p[1]][2][p[2]])}

\* C12: a category whose name is not in the static table contributes no record
\* to the output, however many valid questions its segment holds: every key of
\* the output is a key of the table, every record is the record of a question
\* parsed from a segment whose header name is in the table, and the output has
\* no more records than those segments have questions with an answer.
C12_UnmappedContributesNothing ==
  output_file.exists =>
    /\ \A n \in 1..Len(output_file.content) :
         /\ output_file.content[n][1] \in TableKeys
         /\ NameOfKey(output_file.content[n][1]) \in TableNames
         /\ \A r \in Range(output_file.content[n][2]) :
              \E q \in Range(DictGet(categories,
                                     NameOfKey(output_file.content[n][1]), <<>>)) :
                IsRecordOf(r, q)
    /\ Cardinality(RecordPlaces) = Cardinality(TableQuestionPlaces)

\* an unmapped category with a question that has an answer, beside a mapped
\* category whose record is written
C12_Witness ==
  /\ pc = "done"
  /\ output_file.exists
  /\ \E q \in Range(DictGet(categories, CAT_MISC, <<>>)) : HasLetters(q)
  /\ OutputRecords # {}

\* the header lines of a file: the lines that start with the marker
HeaderPositions(rl) == {x \in 0..(Len(rl) - 1) : IsCategoryHeader(At(rl, x))}

\* the header line of the segment under parse
CurrentHeader == cat_indices[seg + 1]

\* the text behind the nine characters of the marker, without the blanks at
\* its two ends
TrimmedAfterMarker(header) ==
  LET rest == SubSeq(header, Len(CATEGORY_MARK) + 1, Len(header))
      inner == {p \in 1..Len(rest) : ~IsSpace(rest[p])}
  IN IF inner = {} THEN <<>>
     ELSE SubSeq(rest, CHOOSE p \in inner : \A o \in inner : p <= o,
                       CHOOSE p \in inner : \A o \in inner : o <= p)

\* the segments a line of the input lies in
SegmentsOf(x) == {n \in Segments : cat_indices[n] < x /\ x < cat_indices[n + 1]}

\* C13: the splitter cuts the input into contiguous segments that do not
\* overlap: the segment handed to parse_category is exactly the lines strictly
\* between a line that starts with 'CATEGORY:' and the next such line or the
\* end of the file, under the trimmed text behind the marker as its name;
\* every line behind the first header that is no header lies in exactly one
\* segment, and a line before the first header lies in none.
C13_SegmentsPartition ==
  /\ (pc = "segments" /\ seg = 0) =>
       LET rl == raw_lines
           hp == HeaderPositions(rl)
       IN /\ {cat_indices[n] : n \in Segments} = hp
          /\ cat_indices[Len(cat_indices)] = Len(rl)
          /\ \A n \in Segments : cat_indices[n] < cat_indices[n + 1]
          /\ \A x \in 0..(Len(rl) - 1) :
               Cardinality(SegmentsOf(x)) =
                 IF x \notin hp /\ \E h \in hp : h < x THEN 1 ELSE 0
  /\ (pc = "parse" /\ i = 0) =>
       LET rl == raw_lines
           next == FirstAt(rl, CurrentHeader + 1, IsCategoryHeader)
       IN /\ IsCategoryHeader(At(rl, CurrentHeader))
          /\ lines = [k \in 1..(next - CurrentHeader - 1) |-> rl[CurrentHeader + 1 + k]]
          /\ name = TrimmedAfterMarker(At(rl, CurrentHeader))

\* a segment is under parse whose header has blanks to trim and stands behind
\* lines that belong to no segment
C13_Witness ==
  /\ pc = "parse"
  /\ cat_indices[1] > 0
  /\ Len(lines) > 0
  /\ name = CAT_YOUTUBE
  /\ Len(At(raw_lines, CurrentHeader)) > Len(CATEGORY_MARK) + Len(CAT_YOUTUBE)

\* C14: when the input file cannot be read the run aborts before the output
\* file is opened, so the output is neither created nor changed; and the
\* output is written only when every segment is parsed and every entry of the
\* table is resolved.
C14_WriteOnlyAtEnd ==
  /\ [](~input_file.readable =>
          /\ pc \in {"read", "raised"}
          /\ output_file = [exists |-> FALSE, content |-> <<>>])
  /\ [][output_file' # output_file =>
          /\ input_file.readable
          /\ seg = Cardinality(HeaderPositions(raw_lines))
          /\ pc = "map"
          /\ mk = Cardinality(TableKeys)
          /\ DictKeys(js_obj) = <<KEY_CSA, KEY_SKILLCERT, KEY_YOUTUBE, KEY_OTHER>>
          /\ output_file'.content = js_obj]_vars

\* the read of an unreadable file has ended the run, and there is no output
C14_Witness ==
  /\ ~input_file.readable
  /\ pc = "raised"
  /\ ~output_file.exists

\* C15: parse_category terminates on every segment: the cursor never leaves
\* the segment, each pass of the outer loop, the pass that discards a block
\* included, moves it forward by at least one line, so that the distance to
\* the segment length shrinks with every pass, and the loop is left with the
\* cursor at the segment length.
C15_ParseTerminates ==
  /\ [](pc = "parse" => (0 <= i /\ i <= Len(lines)))
  /\ [][(pc = "parse" /\ pc' = "parse") => (i < i' /\ i' <= Len(lines))]_vars
  /\ [][(pc = "parse" /\ pc' # "parse") => i = Len(lines)]_vars

\* a pass has discarded a block, and the cursor stands behind its lines
C15_Witness ==
  /\ pc = "parse"
  /\ i > 0
  /\ i < Len(lines)
  /\ \E e \in Range(stdout) : e.kind = "warn"

\* the lines of the option run of the block at cursor k: behind the marker, up
\* to the first blank line or the segment end
OptionRun(ls, k) == SubSeq(ls, MarkerLine(ls, k) + 2, OptionRunEnd(ls, k))

\* C16: in the option run every line that matches the option pattern adds one
\* option, in encounter order, and every other line, one that looks like an
\* answer key or a question header too, is passed without adding an option and
\* without ending the run.
C16_OptionRun ==
  [][(AtHeader /\ HasMarkerLine(lines, i)) =>
       LET ls == lines
           matching == SelectSeq(OptionRun(ls, i), OPTION_RE)
       IN /\ Len(out') = Len(out) + 1
          /\ out'[Len(out')].options =
               [n \in 1..Len(matching) |-> OptionPair(matching[n])]
          /\ i' >= OptionRunEnd(ls, i)]_vars

\* a block is parsed whose option run holds an answer-key line and a question
\* header between its three option lines
C16_Witness ==
  /\ pc = "parse"
  /\ Len(out) = 1
  /\ Len(out[1].options) = 3
  /\ Len(lines) > 0
  /\ QUESTION_RE(At(lines, 0))
  /\ HasMarkerLine(lines, 0)
  /\ i >= OptionRunEnd(lines, 0)
  /\ \E k \in (MarkerLine(lines, 0) + 1)..(OptionRunEnd(lines, 0) - 1) :
       QUESTION_RE(At(lines, k))
  /\ \E k \in (MarkerLine(lines, 0) + 1)..(OptionRunEnd(lines, 0) - 1) :
       CORRECT_RE(At(lines, k))

\* the block behind the header at p has a prompt, an Options marker, no line
\* in its option run that matches the option pattern, and an answer key of
\* capital letters
ZeroOptionBlockAt(ls, p) ==
  LET lay == BlockLayout(ls, p)
  IN /\ QUESTION_RE(At(ls, p))
     /\ lay.promptEnd > p + 1
     /\ \A x \in (p + 1)..(lay.promptEnd - 1) : IsPromptLine(At(ls, x))
     /\ lay.marker < Len(ls)
     /\ IsOptionsMarker(At(ls, lay.marker))
     /\ \A x \in (lay.marker + 1)..(lay.optionsEnd - 1) : ~OPTION_RE(At(ls, x))
     /\ lay.answer < Len(ls)
     /\ IsLetterKey(At(ls, lay.answer))

\* the record the claim expects for it: no options
ZeroOptionFields(ls, p) ==
  [id |-> QuestionNum(At(ls, p)),
   question |-> join_space([n \in 1..(BlockLayout(ls, p).promptEnd - p - 1) |->
                              strip(At(ls, p + n))]),
   options |-> <<>>]

\* C17: a question with an Options marker, no parsed option line and an answer
\* key with letters is retained by parse_category with an empty options list
\* and is in the final output with an empty options list: the filter drops a
\* question for an empty answer-letter list only, never for empty options.
C17_ZeroOptionsRetained ==
  /\ [][(AtHeader /\ ZeroOptionBlockAt(lines, i)) =>
          /\ Len(out') = Len(out) + 1
          /\ out'[Len(out')].options = <<>>
          /\ Len(out'[Len(out')].correct_letters) > 0]_vars
  /\ []((Terminated /\ input_file.readable) =>
          \A n \in 1..Len(mapping) :
            \A sp \in Segments \X (0..Len(raw_lines)) :
              (/\ SegmentName(sp[1]) = mapping[n][1]
               /\ sp[2] < Len(SegmentLines(sp[1]))
               /\ ZeroOptionBlockAt(SegmentLines(sp[1]), sp[2])) =>
                /\ output_file.exists
                /\ RecordsWith(mapping[n][2],
                               ZeroOptionFields(SegmentLines(sp[1]), sp[2])) # {})

\* the ordinals that the listing printed for a category names
ListedNums(cat) ==
  IF \E e \in Range(stdout) : e.kind = "listing" /\ e.cat = cat
    THEN (CHOOSE e \in Range(stdout) : e.kind = "listing" /\ e.cat = cat).nums
    ELSE <<>>

\* the ordinals of the questions of a list that the filter drops, in order
RECURSIVE DroppedNums(_)
DroppedNums(qlist) ==
  IF Len(qlist) = 0 THEN <<>>
  ELSE (IF HasLetters(qlist[1]) THEN <<>> ELSE <<qlist[1].num>>)
         \o DroppedNums(Tail(qlist))

\* C18: for every mapped category the count of questions reported as skipped
\* for a missing or invalid answer is the number of ordinals in the listing
\* printed for the category: the filter skips a question if and only if
\* parse_category put its ordinal in the missing-answer list.
C18_SkippedCountIsListing ==
  \A e \in Range(stdout) :
    e.kind = "report" =>
      /\ e.skipped = Len(ListedNums(e.cat))
      /\ DroppedNums(DictGet(categories, e.cat, <<>>)) = ListedNums(e.cat)

\* C19: no parsed question of a mapped category is lost: the questions stored
\* for a category name stay stored when a later segment carries the same name,
\* and the output list of the key holds one record for every stored question
\* with answer letters.
C19_NoQuestionLost ==
  /\ [][\A n \in 1..Len(categories) :
          /\ DictHas(categories', categories[n][1])
          /\ IsSubsequence(categories[n][2],
                           DictGet(categories', categories[n][1], <<>>))]_vars
  /\ [](output_file.exists =>
          \A n \in 1..Len(mapping) :
            Len(DictGet(output_file.content, mapping[n][2], <<>>)) =
              LettersCount(DictGet(categories, mapping[n][1], <<>>)))

\* the correct indices of a record in the order of the answer letters
IndexList(r) == IF IsBareInteger(r) THEN <<r.correct.int>> ELSE r.correct.list

\* the labels of the parsed options are A, B, C, ... in this order
ConsecutiveLabels(opts) == \A p \in 1..Len(opts) : opts[p][1] = <<UpperCase[p]>>

\* the t-th answer letter of q designates, through index t of r, the option
\* that carries the letter as its label
DesignatesLabel(r, q, t) ==
  LET k == IndexList(r)[t]
  IN (0 <= k /\ k < Len(q.options)) =>
       /\ q.options[k + 1][1] = q.correct_letters[t]
       /\ r.options[k + 1] = q.options[k + 1][2]

\* the parsed questions with answer letters behind the n-th key of js_obj
KeptOfKey(n) == Kept(DictGet(categories, NameOfKey(js_obj[n][1]), <<>>))

\* C20: for every output record and every correct index k in it that is a
\* position of the options list, the option stored at position k is the option
\* line whose label is the answer letter that produced k, also when the labels
\* of the option lines are not the consecutive letters A, B, C, ... in order.
C20_IndexDesignatesLabel ==
  output_file.exists =>
    /\ output_file.content = js_obj
    /\ \A n \in 1..Len(js_obj) :
         LET kept == KeptOfKey(n)
         IN /\ Len(js_obj[n][2]) = Len(kept)
            /\ \A j \in 1..Len(kept) :
                 \A t \in 1..Len(kept[j].correct_letters) :
                   DesignatesLabel(js_obj[n][2][j], kept[j], t)

\* C20, amended: every correct index is the position of its capital answer
\* letter in the alphabet (A at 0), whatever the labels of the option lines;
\* the option at that position carries the letter as its label when the labels
\* of the block's option lines are the consecutive letters A, B, C, ... in
\* order.
C20_IndexIsAlphabetPosition ==
  output_file.exists =>
    /\ output_file.content = js_obj
    /\ \A n \in 1..Len(js_obj) :
         LET kept == KeptOfKey(n)
         IN /\ Len(js_obj[n][2]) = Len(kept)
            /\ \A j \in 1..Len(kept) :
                 /\ Len(IndexList(js_obj[n][2][j])) = Len(kept[j].correct_letters)
                 /\ \A t \in 1..Len(kept[j].correct_letters) :
                      /\ IsUpper(kept[j].correct_letters[t][1]) =>
                           IndexList(js_obj[n][2][j])[t] =
                             AlphabetIndex(kept[j].correct_letters[t][1])
                      /\ ConsecutiveLabels(kept[j].options) =>
                           DesignatesLabel(js_obj[n][2][j], kept[j], t)

\* the output holds the record of a question whose option labels are not in
\* alphabet order and one of whose answer letters is not the label at its index
C20_Witness ==
  /\ pc = "done"
  /\ output_file.exists
  /\ \E n \in 1..Len(js_obj) :
       \E j \in 1..Len(KeptOfKey(n)) :
         /\ ~ConsecutiveLabels(KeptOfKey(n)[j].options)
         /\ \E t \in 1..Len(KeptOfKey(n)[j].correct_letters) :
              ~DesignatesLabel(js_obj[n][2][j], KeptOfKey(n)[j], t)

====
